---- MODULE Spec2Model ----
(***************************************************************************)
(* Model of the log analyzer of src/main.rs: the line codec of LogEntry,   *)
(* the LogAnalyzer store with its load/save and query operations, and the  *)
(* interactive loop of main.                                               *)
(*                                                                         *)
(* A Rust String is modelled as a sequence of one-character strings, so    *)
(* that splitting, trimming, case mapping and line reading are computed    *)
(* character by character as the standard library does.                    *)
(***************************************************************************)
EXTENDS Integers, Sequences, FiniteSets, TLC

VARIABLES
    entries,    \* LogAnalyzer.entries: sequence of LogEntry
    file,       \* the file at the path: [exists, readable, content]
    pc,         \* position of the caller: "codec", "query", "api", or in main "start", "menu", "done", "panicked"
    op,         \* the operation performed last
    arg,        \* its argument
    out,        \* the value it returned
    res,        \* its io::Result: "Ok" or "Err"
    prev,       \* entries before that operation
    saved,      \* <<e>> when the file content was written by a successful save of e
    saveCalls   \* number of calls of save_to_file made by main

vars == <<entries, file, pc, op, arg, out, res, prev, saved, saveCalls>>

-----------------------------------------------------------------------------
(* Bounds of the model *)

\* longest field of a record fed to the codec round trip
MaxLen == 2
\* most records the store holds
MaxEntries == 3
\* most lines of the file present before the program starts
MaxFileLines == 2
\* largest count passed to get_recent beyond the default
MaxCount == 4

-----------------------------------------------------------------------------
(* Characters and strings *)

Min(S) == CHOOSE x \in S : \A y \in S : x <= y
Max(S) == CHOOSE x \in S : \A y \in S : y <= x

\* char::is_whitespace for the characters used here
WhiteSpace == {" ", "\n", "\r", "\t"}

LowerAlpha == <<"a","b","c","d","e","f","g","h","i","j","k","l","m",
                "n","o","p","q","r","s","t","u","v","w","x","y","z">>
UpperAlpha == <<"A","B","C","D","E","F","G","H","I","J","K","L","M",
                "N","O","P","Q","R","S","T","U","V","W","X","Y","Z">>

\* Letters outside ASCII that have a case mapping (one pair stands for them)
LowerOther == <<"é">>
UpperOther == <<"É">>

IndexOf(c, alpha) == IF \E i \in 1..Len(alpha) : alpha[i] = c
                     THEN Min({i \in 1..Len(alpha) : alpha[i] = c})
                     ELSE 0

\* u8::to_ascii_lowercase, on which eq_ignore_ascii_case compares
to_ascii_lowercase(c) ==
    IF IndexOf(c, UpperAlpha) > 0 THEN LowerAlpha[IndexOf(c, UpperAlpha)] ELSE c

\* char::to_lowercase / char::to_uppercase (Unicode aware)
char_to_lowercase(c) ==
    IF IndexOf(c, UpperAlpha) > 0 THEN LowerAlpha[IndexOf(c, UpperAlpha)]
    ELSE IF IndexOf(c, UpperOther) > 0 THEN LowerOther[IndexOf(c, UpperOther)]
    ELSE c

char_to_uppercase(c) ==
    IF IndexOf(c, LowerAlpha) > 0 THEN UpperAlpha[IndexOf(c, LowerAlpha)]
    ELSE IF IndexOf(c, LowerOther) > 0 THEN UpperOther[IndexOf(c, LowerOther)]
    ELSE c

\* str::to_lowercase, str::to_uppercase
to_lowercase(s) == [i \in 1..Len(s) |-> char_to_lowercase(s[i])]
to_uppercase(s) == [i \in 1..Len(s) |-> char_to_uppercase(s[i])]

\* str::eq_ignore_ascii_case
eq_ignore_ascii_case(a, b) ==
    /\ Len(a) = Len(b)
    /\ \A i \in 1..Len(a) : to_ascii_lowercase(a[i]) = to_ascii_lowercase(b[i])

\* str::contains(&str)
contains(s, q) ==
    \E i \in 0..(Len(s) - Len(q)) : SubSeq(s, i + 1, i + Len(q)) = q

\* str::trim
trim(s) ==
    LET keep == {i \in 1..Len(s) : s[i] \notin WhiteSpace}
    IN  IF keep = {} THEN <<>> ELSE SubSeq(s, Min(keep), Max(keep))

\* position of the first c in s, 0 when there is none
find(s, c) == IF \E i \in 1..Len(s) : s[i] = c
              THEN Min({i \in 1..Len(s) : s[i] = c})
              ELSE 0

\* str::splitn(3, '|') collected: at most three parts, the last one verbatim
splitn3(s) ==
    LET p1 == find(s, "|")
    IN  IF p1 = 0 THEN <<s>>
        ELSE LET rest == SubSeq(s, p1 + 1, Len(s))
                 p2   == find(rest, "|")
             IN  IF p2 = 0 THEN <<SubSeq(s, 1, p1 - 1), rest>>
                 ELSE <<SubSeq(s, 1, p1 - 1),
                        SubSeq(rest, 1, p2 - 1),
                        SubSeq(rest, p2 + 1, Len(rest))>>

\* all strings over the characters cs of length at most n
StringsUpTo(cs, n) == UNION {[1..k -> cs] : k \in 0..n}

-----------------------------------------------------------------------------
(* Entry codec: LogEntry *)

LogEntry(t, l, m) == [timestamp |-> t, level |-> l, message |-> m]

\* LogEntry::from_line; Option is <<>> for None and <<e>> for Some(e)
from_line(line) ==
    LET parts == splitn3(line)
    IN  IF Len(parts) = 3
        THEN <<LogEntry(trim(parts[1]), trim(parts[2]), trim(parts[3]))>>
        ELSE <<>>

\* format!("{}|{}|{}", level, timestamp, message): the first two arguments swapped
to_line_swapped(e) == e.level \o <<"|">> \o e.timestamp \o <<"|">> \o e.message

\* LogEntry::to_line
to_line(e) == e.timestamp \o <<"|">> \o e.level \o <<"|">> \o e.message

-----------------------------------------------------------------------------
(* The file and line reading *)

\* stands for a byte sequence that is not valid UTF-8; never part of a String
BadByte == "<FF>"

NoFile == [exists |-> FALSE, readable |-> FALSE, content |-> <<>>]

\* BufRead::lines: the content cut after every "\n"; a line that ended in "\n"
\* also loses one "\r" before it; a line holding invalid UTF-8 is an Err item
\* and reading goes on with the next line
RECURSIVE lines(_)
lines(c) ==
    IF c = <<>> THEN <<>>
    ELSE LET nl   == find(c, "\n")
             raw  == IF nl = 0 THEN c ELSE SubSeq(c, 1, nl - 1)
             rest == IF nl = 0 THEN <<>> ELSE SubSeq(c, nl + 1, Len(c))
             text == IF nl > 0 /\ raw # <<>> /\ raw[Len(raw)] = "\r"
                     THEN SubSeq(raw, 1, Len(raw) - 1)
                     ELSE raw
             item == IF \E i \in 1..Len(raw) : raw[i] = BadByte
                     THEN [ok |-> FALSE, text |-> <<>>]
                     ELSE [ok |-> TRUE, text |-> text]
         IN  <<item>> \o lines(rest)

-----------------------------------------------------------------------------
(* Log store: LogAnalyzer *)

\* LogAnalyzer::new
new == <<>>

\* load_from_file that stops at the first line that does not parse
RECURSIVE push_until_bad(_, _)
push_until_bad(es, ls) ==
    IF ls = <<>> THEN es
    ELSE LET l == Head(ls)
         IN  IF l.ok /\ from_line(l.text) # <<>>
             THEN push_until_bad(es \o from_line(l.text), Tail(ls))
             ELSE es

\* the loop of load_from_file over reader.lines(): Err items and lines that
\* do not parse are passed over
RECURSIVE push_lines(_, _)
push_lines(es, ls) ==
    IF ls = <<>> THEN es
    ELSE LET l == Head(ls)
         IN  push_lines(IF l.ok THEN es \o from_line(l.text) ELSE es, Tail(ls))

\* load_from_file that empties the store before reading
load_from_file_reset(es, f) ==
    IF ~f.exists THEN [entries |-> es, res |-> "Ok"]
    ELSE IF ~f.readable THEN [entries |-> es, res |-> "Err"]
    ELSE [entries |-> push_lines(<<>>, lines(f.content)), res |-> "Ok"]

\* LogAnalyzer::load_from_file: the store afterwards and the io::Result
load_from_file(es, f) ==
    IF ~f.exists THEN [entries |-> es, res |-> "Ok"]
    ELSE IF ~f.readable THEN [entries |-> es, res |-> "Err"]
    ELSE [entries |-> push_lines(es, lines(f.content)), res |-> "Ok"]

\* the bytes of the first k records as writeln! writes them
RECURSIVE written(_, _)
written(es, k) ==
    IF k = 0 THEN <<>>
    ELSE written(es, k - 1) \o to_line(es[k]) \o <<"\n">>

\* save_to_file with write! in place of writeln!
RECURSIVE written_unterminated(_, _)
written_unterminated(es, k) ==
    IF k = 0 THEN <<>>
    ELSE written_unterminated(es, k - 1) \o to_line(es[k])

save_to_file_no_newline(es, f, k) ==
    IF k < 0 THEN [file |-> f, res |-> "Err"]
    ELSE [file |-> [exists   |-> TRUE,
                    readable |-> IF f.exists THEN f.readable ELSE TRUE,
                    content  |-> written_unterminated(es, k)],
          res  |-> IF k = Len(es) THEN "Ok" ELSE "Err"]

\* LogAnalyzer::save_to_file: the file afterwards and the io::Result.
\* k < 0: File::create fails and the file is as before; 0 <= k < Len(es): the
\* write of record k+1 fails after k lines; k = Len(es): every write succeeds.
\* File::create truncates an existing file and keeps its permissions.
save_to_file(es, f, k) ==
    IF k < 0 THEN [file |-> f, res |-> "Err"]
    ELSE [file |-> [exists   |-> TRUE,
                    readable |-> IF f.exists THEN f.readable ELSE TRUE,
                    content  |-> written(es, k)],
          res  |-> IF k = Len(es) THEN "Ok" ELSE "Err"]

\* LogAnalyzer::add_entry, ts the formatted local time
add_entry(es, ts, level, message) == Append(es, LogEntry(ts, level, message))

\* filter_by_level comparing with == in place of eq_ignore_ascii_case
filter_by_level_exact(es, level) ==
    SelectSeq(es, LAMBDA e : e.level = level)

\* LogAnalyzer::filter_by_level
filter_by_level(es, level) ==
    SelectSeq(es, LAMBDA e : eq_ignore_ascii_case(e.level, level))

\* search that lower-cases the message only
search_raw_query(es, query) ==
    SelectSeq(es, LAMBDA e : contains(to_lowercase(e.message), query))

\* LogAnalyzer::search
search(es, query) ==
    LET query_lower == to_lowercase(query)
    IN  SelectSeq(es, LAMBDA e : contains(to_lowercase(e.message), query_lower))

\* get_statistics keyed by the upper-cased level
RECURSIVE get_statistics_folded(_)
get_statistics_folded(es) ==
    IF es = <<>> THEN [l \in {} |-> 0]
    ELSE LET stats == get_statistics_folded(SubSeq(es, 1, Len(es) - 1))
             key   == to_uppercase(es[Len(es)].level)
         IN  [l \in DOMAIN stats \cup {key} |->
                 IF l = key
                 THEN (IF key \in DOMAIN stats THEN stats[key] ELSE 0) + 1
                 ELSE stats[l]]

\* LogAnalyzer::get_statistics: the HashMap as a function from level to count
RECURSIVE get_statistics(_)
get_statistics(es) ==
    IF es = <<>> THEN [l \in {} |-> 0]
    ELSE LET stats == get_statistics(SubSeq(es, 1, Len(es) - 1))
             key   == es[Len(es)].level
         IN  [l \in DOMAIN stats \cup {key} |->
                 IF l = key
                 THEN (IF key \in DOMAIN stats THEN stats[key] ELSE 0) + 1
                 ELSE stats[l]]

\* LogAnalyzer::count_total
count_total(es) == Len(es)

\* get_recent that slices from the front: entries[..min(count, len)]
get_recent_front(es, count) ==
    SubSeq(es, 1, IF Len(es) > count THEN count ELSE Len(es))

\* LogAnalyzer::get_recent
get_recent(es, count) ==
    LET start == IF Len(es) > count THEN Len(es) - count ELSE 0
    IN  SubSeq(es, start + 1, Len(es))

\* LogAnalyzer::clear
clear(es) == <<>>

-----------------------------------------------------------------------------
(* Values the operations are exercised on *)

\* chrono::Local::now().format("%Y-%m-%d %H:%M:%S") at two instants
Clock == {<<"2", "0", "2", "4", "-", "0", "1", "-", "0", "1", " ", "1", "0", ":", "0", "0", ":", "0", "0">>,
          <<"2", "0", "2", "4", "-", "0", "1", "-", "0", "1", " ", "1", "0", ":", "0", "0", ":", "0", "1">>}
Now == <<"2", "0", "2", "4", "-", "0", "1", "-", "0", "1", " ", "1", "0", ":", "0", "0", ":", "0", "0">>

SeqsUpTo(S, n) == UNION {[1..k -> S] : k \in 0..n}

\* characters of the records fed to the codec; a message may also hold a newline
CodecChars == {"a", " ", "|"}
MessageChars == CodecChars \cup {"\n"}

\* records held by the store when it is queried
QueryRecords ==
    {LogEntry(Now, <<"I", "N", "F", "O">>, <<"s", "t", "a", "r", "t", "e", "d">>),
     LogEntry(Now, <<"E", "R", "R", "O", "R">>, <<"f", "a", "i", "l", "e", "d", " ", "t", "o", " ", "c", "o", "n", "n", "e", "c", "t">>),
     LogEntry(Now, <<"I", "N", "F", "O">>, <<"r", "e", "t", "r", "y", "i", "n", "g">>),
     LogEntry(Now, <<"e", "r", "r", "o", "r">>, <<"F", "A", "I", "L">>),
     LogEntry(Now, <<"É">>, <<>>)}
LevelQueries == {<<"I", "N", "F", "O">>, <<"E", "R", "R", "O", "R">>, <<"e", "r", "r", "o", "r">>, <<"I", "n", "f", "o">>, <<"é">>, <<>>}
SearchQueries == {<<>>, <<"f", "a", "i", "l">>, <<"F", "A", "I", "L">>, <<"R", "E", "T", "R", "Y">>, <<"x">>}
Counts == 0..MaxCount

\* lines found in the file before the program starts
LineUp == <<"1", "|", "I", "N", "F", "O", "|", "u", "p">>
LinePadded ==
    <<" ", "2", " ", "|", " ", "e", "r", "r", "o", "r", " ", "|", " ", "a", "|", "b", " ", "\r">>
LineNoSeparator ==
    <<"2", "0", "2", "4", "-", "0", "1", "-", "0", "1", " ", "I", "N", "F", "O">>
LineOneSeparator == <<"1", "|", "I", "N", "F", "O">>
LineInvalid == <<BadByte, "|", "E", "|", "x">>
LineEmptyFields == <<"|", "|">>
FileLines ==
    {LineUp, LinePadded, LineNoSeparator, LineOneSeparator, LineInvalid, LineEmptyFields}

RECURSIVE join_lines(_)
join_lines(ls) == IF ls = <<>> THEN <<>> ELSE Head(ls) \o <<"\n">> \o join_lines(Tail(ls))

ReadableFile(c) == [exists |-> TRUE, readable |-> TRUE, content |-> c]
UnreadableFile(c) == [exists |-> TRUE, readable |-> FALSE, content |-> c]

\* every file of at most MaxFileLines lines, a file whose last line has no
\* newline, a file that cannot be opened, and no file
InitialFiles ==
    {ReadableFile(join_lines(ls)) : ls \in SeqsUpTo(FileLines, MaxFileLines)}
    \cup {ReadableFile(l) : l \in FileLines}
    \cup {UnreadableFile(join_lines(<<l>>)) : l \in FileLines}
    \cup {NoFile}

\* arguments of add_entry
AddLevels == {<<"I", "N", "F", "O">>, <<"i", "n", "f", "o">>}
AddMessages == {<<"u", "p">>}

\* records of a store that is saved: add_entry takes any level and message
PersistRecords ==
    {LogEntry(Now, <<"I", "N", "F", "O">>, <<"u", "p">>),
     LogEntry(Now, <<"I", "N", "F", "O">>, <<"a", "|", "b">>),
     LogEntry(Now, <<"A", "|", "B">>, <<"u", "p">>),
     LogEntry(Now, <<"I", "N", "F", "O">>, <<"a", "\n", "b">>),
     LogEntry(Now, <<"I", "N", "F", "O">>, <<" ", "u", "p">>),
     LogEntry(Now, <<>>, <<>>)}
PersistFiles ==
    {NoFile, ReadableFile(join_lines(<<LineUp>>)), UnreadableFile(<<>>)}

-----------------------------------------------------------------------------
(* Codec round trip *)

InitCodec ==
    /\ arg \in {LogEntry(t, l, m) : t \in StringsUpTo(CodecChars, MaxLen),
                                    l \in StringsUpTo(CodecChars, MaxLen),
                                    m \in StringsUpTo(MessageChars, MaxLen)}
    /\ pc = "codec" /\ op = "new" /\ out = <<>>
    /\ entries = new /\ file = NoFile /\ res = "Ok" /\ prev = <<>>
    /\ saved = <<>> /\ saveCalls = 0

\* from_line(to_line(record))
RoundTrip ==
    /\ pc = "codec" /\ op = "new"
    /\ op' = "round_trip"
    /\ out' = from_line(to_line(arg))
    /\ UNCHANGED <<entries, file, pc, arg, res, prev, saved, saveCalls>>

NextCodec == RoundTrip

SpecCodec == InitCodec /\ [][NextCodec]_vars

-----------------------------------------------------------------------------
(* Queries on a store *)

InitQuery ==
    /\ entries \in SeqsUpTo(QueryRecords, MaxEntries)
    /\ pc = "query" /\ op = "new" /\ arg = <<>> /\ out = <<>>
    /\ file = NoFile /\ res = "Ok" /\ prev = entries
    /\ saved = <<>> /\ saveCalls = 0

Query(name, a, value) ==
    /\ pc = "query"
    /\ op' = name /\ arg' = a /\ out' = value
    /\ prev' = entries
    /\ UNCHANGED <<entries, file, pc, res, saved, saveCalls>>

QFilter == \E level \in LevelQueries :
    Query("filter_by_level", level, filter_by_level(entries, level))
QSearch == \E query \in SearchQueries :
    Query("search", query, search(entries, query))
QStatistics == Query("get_statistics", <<>>, get_statistics(entries))
QCount == Query("count_total", <<>>, count_total(entries))
QRecent == \E count \in Counts :
    Query("get_recent", count, get_recent(entries, count))

NextQuery == QFilter \/ QSearch \/ QStatistics \/ QCount \/ QRecent

SpecQuery == InitQuery /\ [][NextQuery]_vars

-----------------------------------------------------------------------------
(* Calls of the store's operations in any order *)

InitApi ==
    /\ entries = new
    /\ pc = "api" /\ op = "new" /\ arg = <<>> /\ out = <<>>
    /\ res = "Ok" /\ prev = <<>>
    /\ saved = <<>> /\ saveCalls = 0

\* load_from_file(path); out keeps count_total() before and after this load,
\* preceded by the count before the load made just before it, if any
ApiLoad ==
    /\ pc = "api"
    /\ LET r == load_from_file(entries, file)
       IN  /\ Len(r.entries) <= MaxEntries
           /\ entries' = r.entries
           /\ res' = r.res
           /\ out' = IF op = "load_from_file"
                     THEN <<count_total(prev), count_total(entries), count_total(r.entries)>>
                     ELSE <<count_total(entries), count_total(r.entries)>>
    /\ op' = "load_from_file" /\ arg' = <<>>
    /\ prev' = entries
    /\ UNCHANGED <<file, pc, saved, saveCalls>>

\* add_entry(level, message)
ApiAdd ==
    /\ pc = "api"
    /\ Len(entries) < MaxEntries
    /\ \E ts \in Clock, level \in AddLevels, message \in AddMessages :
          /\ entries' = add_entry(entries, ts, level, message)
          /\ arg' = <<level, message>>
    /\ op' = "add_entry" /\ out' = <<>> /\ res' = "Ok"
    /\ prev' = entries
    /\ UNCHANGED <<file, pc, saved, saveCalls>>

\* clear()
ApiClear ==
    /\ pc = "api"
    /\ entries' = clear(entries)
    /\ op' = "clear" /\ arg' = <<>> /\ out' = <<>> /\ res' = "Ok"
    /\ prev' = entries
    /\ UNCHANGED <<file, pc, saved, saveCalls>>

\* save_to_file(path)
ApiSave ==
    /\ pc = "api"
    /\ \E k \in -1..Len(entries) :
          LET r == save_to_file(entries, file, k)
          IN  /\ file' = r.file
              /\ res' = r.res
              /\ saved' = IF r.res = "Ok" THEN <<entries>>
                          ELSE IF k < 0 THEN saved ELSE <<>>
    /\ op' = "save_to_file" /\ arg' = <<>> /\ out' = <<>>
    /\ prev' = entries
    /\ UNCHANGED <<entries, pc, saveCalls>>

\* a second store: LogAnalyzer::new()
ApiNew ==
    /\ pc = "api"
    /\ entries' = new
    /\ op' = "new" /\ arg' = <<>> /\ out' = <<>> /\ res' = "Ok"
    /\ prev' = entries
    /\ UNCHANGED <<file, pc, saved, saveCalls>>

InitStore == InitApi /\ file \in InitialFiles
NextStore == ApiLoad \/ ApiAdd \/ ApiClear
SpecStore == InitStore /\ [][NextStore]_vars

InitPersist ==
    /\ entries \in SeqsUpTo(PersistRecords, MaxEntries)
    /\ file \in PersistFiles
    /\ pc = "api" /\ op = "new" /\ arg = <<>> /\ out = <<>>
    /\ res = "Ok" /\ prev = <<>>
    /\ saved = <<>> /\ saveCalls = 0
NextPersist == ApiSave \/ ApiNew \/ ApiLoad
SpecPersist == InitPersist /\ [][NextPersist]_vars

-----------------------------------------------------------------------------
(* The interactive loop: main *)

\* the count used when the input does not parse
DefaultCount == 10

Digits == <<"0", "1", "2", "3", "4", "5", "6", "7", "8", "9">>

RECURSIVE decimal(_)
decimal(s) ==
    IF s = <<>> THEN 0
    ELSE 10 * decimal(SubSeq(s, 1, Len(s) - 1)) + (IndexOf(s[Len(s)], Digits) - 1)

\* str::parse::<usize>: an optional "+" and at least one digit, nothing else
\* (the lines typed here are too short to overflow usize)
parse_usize(s) ==
    LET body == IF s # <<>> /\ s[1] = "+" THEN Tail(s) ELSE s
    IN  IF body = <<>> \/ \E i \in 1..Len(body) : IndexOf(body[i], Digits) = 0
        THEN <<>>
        ELSE <<decimal(body)>>

\* Option::unwrap_or
unwrap_or(o, d) == IF o = <<>> THEN d ELSE o[1]

\* read_line(): the line typed, trimmed; "" stands for end of input
read_line(typed) == trim(typed)

\* lines typed at the prompts
ChoiceLines == {<<"1", "\n">>, <<"2", "\n">>, <<"3", "\n">>, <<"4", "\n">>, <<"5", "\n">>,
                <<"6", "\n">>, <<"7", "\n">>, <<"8", "\n">>, <<" ", "8", " ", "\n">>,
                <<"9", "\n">>, <<"x", "\n">>, <<"\n">>, <<>>}
LevelLines == {<<"i", "n", "f", "o", "\n">>, <<" ", "a", "|", "b", " ", "\n">>}
MessageLines == {<<"u", "p", "\n">>}
FilterLines == {<<"e", "r", "r", "o", "r", "\n">>, <<" ", "I", "N", "F", "O", "\n">>}
SearchLines == {<<"\n">>, <<"U", "P", "\n">>}
CountLines == {<<"2", "\n">>, <<"0", "\n">>, <<"+", "1", "\n">>, <<"-", "1", "\n">>, <<"a", "b", "c", "\n">>, <<"\n">>}

\* the file found at start: none, one that cannot be opened, two records,
\* a line of invalid UTF-8 before a record, a single line without separator
MainFiles ==
    {NoFile,
     UnreadableFile(join_lines(<<LineUp>>)),
     ReadableFile(join_lines(<<LineUp, LinePadded>>)),
     ReadableFile(join_lines(<<LineInvalid, LineUp>>)),
     ReadableFile(join_lines(<<LineNoSeparator>>))}

InitMain ==
    /\ entries = new
    /\ file \in MainFiles
    /\ pc = "start" /\ op = "new" /\ arg = <<>> /\ out = <<>>
    /\ res = "Ok" /\ prev = <<>>
    /\ saved = <<>> /\ saveCalls = 0

\* the load before the loop; an Err is printed and the loop is entered
Startup ==
    /\ pc = "start"
    /\ LET r == load_from_file(entries, file)
       IN  /\ entries' = r.entries
           /\ res' = r.res
           /\ out' = <<count_total(entries), count_total(r.entries)>>
    /\ op' = "load_from_file" /\ arg' = <<>>
    /\ prev' = entries
    /\ pc' = "menu"
    /\ UNCHANGED <<file, saved, saveCalls>>

\* what every arm but "8" leaves alone
Stay == pc' = "menu" /\ UNCHANGED <<file, saved, saveCalls>>

\* "1": add a log entry
CmdAdd ==
    /\ pc = "menu"
    /\ Len(entries) < MaxEntries
    /\ \E c \in ChoiceLines, l \in LevelLines, m \in MessageLines, ts \in Clock :
          /\ read_line(c) = <<"1">>
          /\ LET level   == to_uppercase(read_line(l))
                 message == read_line(m)
             IN  /\ entries' = add_entry(entries, ts, level, message)
                 /\ arg' = <<read_line(c), level, message>>
    /\ op' = "add_entry" /\ out' = <<>> /\ res' = "Ok"
    /\ prev' = entries
    /\ Stay

\* "2": view all logs
CmdView ==
    /\ pc = "menu"
    /\ \E c \in ChoiceLines :
          /\ read_line(c) = <<"2">>
          /\ arg' = <<read_line(c)>>
    /\ op' = "view" /\ out' = entries /\ res' = "Ok"
    /\ prev' = entries
    /\ UNCHANGED entries
    /\ Stay

\* "3": filter by level
CmdFilter ==
    /\ pc = "menu"
    /\ \E c \in ChoiceLines, l \in FilterLines :
          /\ read_line(c) = <<"3">>
          /\ arg' = <<read_line(c), read_line(l)>>
          /\ out' = filter_by_level(entries, read_line(l))
    /\ op' = "filter_by_level" /\ res' = "Ok"
    /\ prev' = entries
    /\ UNCHANGED entries
    /\ Stay

\* "4": search logs
CmdSearch ==
    /\ pc = "menu"
    /\ \E c \in ChoiceLines, q \in SearchLines :
          /\ read_line(c) = <<"4">>
          /\ arg' = <<read_line(c), read_line(q)>>
          /\ out' = search(entries, read_line(q))
    /\ op' = "search" /\ res' = "Ok"
    /\ prev' = entries
    /\ UNCHANGED entries
    /\ Stay

\* "5": view statistics
CmdStatistics ==
    /\ pc = "menu"
    /\ \E c \in ChoiceLines :
          /\ read_line(c) = <<"5">>
          /\ arg' = <<read_line(c)>>
    /\ op' = "get_statistics"
    /\ out' = <<count_total(entries), get_statistics(entries)>>
    /\ res' = "Ok"
    /\ prev' = entries
    /\ UNCHANGED entries
    /\ Stay

\* "6": view recent logs
CmdRecent ==
    /\ pc = "menu"
    /\ \E c \in ChoiceLines, n \in CountLines :
          /\ read_line(c) = <<"6">>
          /\ LET count == unwrap_or(parse_usize(read_line(n)), DefaultCount)
             IN  /\ arg' = <<read_line(c), read_line(n), count>>
                 /\ out' = get_recent(entries, count)
    /\ op' = "get_recent" /\ res' = "Ok"
    /\ prev' = entries
    /\ UNCHANGED entries
    /\ Stay

\* "7": clear logs
CmdClear ==
    /\ pc = "menu"
    /\ \E c \in ChoiceLines :
          /\ read_line(c) = <<"7">>
          /\ arg' = <<read_line(c)>>
    /\ entries' = clear(entries)
    /\ op' = "clear" /\ out' = <<>> /\ res' = "Ok"
    /\ prev' = entries
    /\ Stay

\* "8" with a loop that is left only when the save succeeds
CmdSaveExitRetry ==
    /\ pc = "menu"
    /\ \E c \in ChoiceLines, k \in -1..Len(entries) :
          /\ read_line(c) = <<"8">>
          /\ arg' = <<read_line(c)>>
          /\ LET r == save_to_file(entries, file, k)
             IN  /\ file' = r.file
                 /\ res' = r.res
                 /\ saved' = IF r.res = "Ok" THEN <<entries>>
                             ELSE IF k < 0 THEN saved ELSE <<>>
                 /\ pc' = IF r.res = "Ok" THEN "done" ELSE "menu"
    /\ op' = "save_to_file" /\ out' = <<>>
    /\ prev' = entries
    /\ saveCalls' = saveCalls + 1
    /\ UNCHANGED entries

\* "8": save and exit; the loop is left whatever save returns
CmdSaveExit ==
    /\ pc = "menu"
    /\ \E c \in ChoiceLines, k \in -1..Len(entries) :
          /\ read_line(c) = <<"8">>
          /\ arg' = <<read_line(c)>>
          /\ LET r == save_to_file(entries, file, k)
             IN  /\ file' = r.file
                 /\ res' = r.res
                 /\ saved' = IF r.res = "Ok" THEN <<entries>>
                             ELSE IF k < 0 THEN saved ELSE <<>>
    /\ op' = "save_to_file" /\ out' = <<>>
    /\ prev' = entries
    /\ saveCalls' = saveCalls + 1
    /\ pc' = "done"
    /\ UNCHANGED entries

Recognized == {<<"1">>, <<"2">>, <<"3">>, <<"4">>, <<"5">>, <<"6">>, <<"7">>, <<"8">>}

\* any other line: "Invalid choice"
CmdInvalid ==
    /\ pc = "menu"
    /\ \E c \in ChoiceLines :
          /\ read_line(c) \notin Recognized
          /\ arg' = <<read_line(c)>>
    /\ op' = "invalid" /\ out' = <<>> /\ res' = "Ok"
    /\ prev' = entries
    /\ UNCHANGED entries
    /\ Stay

\* stdin cannot be read: the unwrap in read_line panics, at any prompt
StdinError ==
    /\ pc = "menu"
    /\ pc' = "panicked"
    /\ op' = "panic" /\ arg' = <<>> /\ out' = <<>> /\ res' = "Err"
    /\ prev' = entries
    /\ UNCHANGED <<entries, file, saved, saveCalls>>

Next ==
    \/ Startup
    \/ CmdAdd
    \/ CmdView
    \/ CmdFilter
    \/ CmdSearch
    \/ CmdStatistics
    \/ CmdRecent
    \/ CmdClear
    \/ CmdSaveExit
    \/ CmdInvalid
    \/ StdinError

Spec == InitMain /\ [][Next]_vars

-----------------------------------------------------------------------------
(* Properties *)

Has(s, c) == \E i \in 1..Len(s) : s[i] = c

\* s neither begins nor ends with whitespace
EdgeClean(s) == s = <<>> \/ (s[1] \notin WhiteSpace /\ s[Len(s)] \notin WhiteSpace)

RECURSIVE StripLeft(_)
StripLeft(s) == IF s # <<>> /\ Head(s) \in WhiteSpace THEN StripLeft(Tail(s)) ELSE s
RECURSIVE StripRight(_)
StripRight(s) ==
    IF s # <<>> /\ s[Len(s)] \in WhiteSpace THEN StripRight(SubSeq(s, 1, Len(s) - 1)) ELSE s
Strip(s) == StripRight(StripLeft(s))

\* the elements of es at the indices I, in increasing order of index
Pick(es, I) ==
    [k \in 1..Cardinality(I) |->
        es[CHOOSE i \in I : Cardinality({j \in I : j <= i}) = k]]

AsciiFold(s) == [i \in 1..Len(s) |-> to_ascii_lowercase(s[i])]

RoundTripped == pc = "codec" /\ op = "round_trip"

\* C1 as stated: a record whose message holds no '|' and no newline comes
\* back from from_line(to_line(record)) equal in all three fields.
C1_RoundTripAsStated ==
    (RoundTripped /\ ~Has(arg.message, "|") /\ ~Has(arg.message, "\n"))
        => out = <<arg>>

\* C1 amended: a record whose message holds no '|' and no newline, whose
\* timestamp and level hold no '|', and none of whose fields begins or ends
\* with whitespace, comes back from from_line(to_line(record)) equal in all
\* three fields.
C1_RoundTrip ==
    (/\ RoundTripped
     /\ ~Has(arg.message, "|") /\ ~Has(arg.message, "\n")
     /\ ~Has(arg.timestamp, "|") /\ ~Has(arg.level, "|")
     /\ EdgeClean(arg.timestamp) /\ EdgeClean(arg.level) /\ EdgeClean(arg.message))
        => out = <<arg>>

C1_Witness ==
    /\ RoundTripped
    /\ arg = LogEntry(<<"a", "a">>, <<"a">>, <<"a", "a">>)
    /\ out = <<arg>>

\* no newline in any field, no '|' in timestamp or level, no whitespace at
\* either end of a field
PersistClean(e) ==
    /\ ~Has(e.timestamp, "\n") /\ ~Has(e.level, "\n") /\ ~Has(e.message, "\n")
    /\ ~Has(e.timestamp, "|") /\ ~Has(e.level, "|")
    /\ EdgeClean(e.timestamp) /\ EdgeClean(e.level) /\ EdgeClean(e.message)

\* the file was written by a successful save and has now been loaded into an
\* empty store
SavedThenLoaded ==
    /\ pc = "api" /\ op = "load_from_file" /\ res = "Ok"
    /\ prev = <<>>
    /\ saved # <<>>

\* C2: a store saved to the file and loaded from it into an empty store gives
\* the same records in the same order when every record is clean; an empty
\* store gives count_total() = 0.
C2_PersistRoundTrip ==
    (SavedThenLoaded /\ \A i \in 1..Len(saved[1]) : PersistClean(saved[1][i]))
        => /\ entries = saved[1]
           /\ (saved[1] = <<>> => count_total(entries) = 0)

C2_Witness ==
    /\ SavedThenLoaded
    /\ Len(saved[1]) = 2
    /\ \A i \in 1..2 : PersistClean(saved[1][i])
    /\ Has(saved[1][1].message, "|")
    /\ saved[1][2] # saved[1][1]
    /\ entries = saved[1]

\* out = <<c0, c1, c2>>: count_total() before a load, after it, and after a
\* second load made right after it
LoadedTwice == pc = "api" /\ op = "load_from_file" /\ Len(out) = 3

\* C3 as stated: whatever the store holds, after two loads of the unchanged
\* file count_total() is twice what it was after the first.
C3_DoublesAsStated == LoadedTwice => out[3] = 2 * out[2]

\* C3 amended: two loads of the unchanged file append the same number of
\* records each, so count_total() after the second is twice what it was after
\* the first when the store was empty before the first load.
C3_AppendsTwice ==
    LoadedTwice => /\ out[3] - out[2] = out[2] - out[1]
                   /\ (out[1] = 0 => out[3] = 2 * out[2])

C3_Witness ==
    /\ LoadedTwice
    /\ out = <<0, 1, 2>>
    /\ entries = prev \o prev

Pipes(s) == {i \in 1..Len(s) : s[i] = "|"}

\* the record of a line with at least two '|'
RecordOf(s) ==
    LET p1 == Min(Pipes(s))
        p2 == Min(Pipes(s) \ {p1})
    IN  LogEntry(Strip(SubSeq(s, 1, p1 - 1)),
                 Strip(SubSeq(s, p1 + 1, p2 - 1)),
                 Strip(SubSeq(s, p2 + 1, Len(s))))

RECURSIVE RecordsOf(_)
RecordsOf(ls) ==
    IF ls = <<>> THEN <<>>
    ELSE (IF Cardinality(Pipes(Head(ls).text)) >= 2
          THEN <<RecordOf(Head(ls).text)>> ELSE <<>>) \o RecordsOf(Tail(ls))

LoadedReadable ==
    /\ pc = "api" /\ op = "load_from_file"
    /\ file.exists /\ file.readable
    /\ \A i \in 1..Len(lines(file.content)) : lines(file.content)[i].ok

\* C4: a load of an existing readable file succeeds, keeps the records the
\* store held and appends, in file order, one record for each line with at
\* least two '|' (the trimmed texts around the first two '|') and nothing for
\* any other line.
C4_LoadAppends ==
    LoadedReadable => /\ res = "Ok"
                      /\ entries = prev \o RecordsOf(lines(file.content))

C4_Witness ==
    /\ LoadedReadable
    /\ file.content = join_lines(<<LineNoSeparator, LinePadded>>)
    /\ prev # <<>>
    /\ entries = Append(prev, LogEntry(<<"2">>, <<"e", "r", "r", "o", "r">>, <<"a", "|", "b">>))

\* C5: the load at start succeeds without effect when there is no file; when
\* there is one it returns an error exactly when the file cannot be opened or
\* cannot be read; after an error the loop runs with the store empty.
C5_LoadOutcome ==
    (pc = "menu" /\ op = "load_from_file") =>
        /\ (~file.exists => res = "Ok" /\ entries = prev)
        /\ (file.exists =>
              (res = "Err" <=>
                  \/ ~file.readable
                  \/ \E i \in 1..Len(lines(file.content)) : ~lines(file.content)[i].ok))
        /\ (res = "Err" => entries = <<>>)

\* C6: filter_by_level(q) returns, in order, the records whose level equals q
\* up to ASCII case, returns the same for any query equal to q up to ASCII
\* case, and leaves the store as it was.
C6_Filter ==
    (pc = "query" /\ op = "filter_by_level") =>
        /\ out = Pick(entries, {i \in 1..Len(entries) :
                                   AsciiFold(entries[i].level) = AsciiFold(arg)})
        /\ \A q \in LevelQueries :
              AsciiFold(q) = AsciiFold(arg) => filter_by_level(entries, q) = out
        /\ entries = prev

C6_Witness ==
    /\ pc = "query" /\ op = "filter_by_level"
    /\ arg = <<"e", "r", "r", "o", "r">>
    /\ Len(entries) = 3
    /\ entries[1].level = <<"E", "R", "R", "O", "R">>
    /\ entries[2].level = <<"I", "N", "F", "O">>
    /\ entries[3].level = <<"e", "r", "r", "o", "r">>
    /\ out = <<entries[1], entries[3]>>

Matches(es, q) ==
    {i \in 1..Len(es) : contains(to_lowercase(es[i].message), to_lowercase(q))}

\* C7 as stated: search(q) returns, in order, the records whose lower-cased
\* message contains the lower-cased q; search("") returns every record; a q
\* that is a substring of no message returns nothing.
C7_SearchAsStated ==
    (pc = "query" /\ op = "search") =>
        /\ out = Pick(entries, Matches(entries, arg))
        /\ (arg = <<>> => out = entries)
        /\ ((\A i \in 1..Len(entries) : ~contains(entries[i].message, arg))
                => out = <<>>)

\* C7 amended: search(q) returns, in order, the records whose lower-cased
\* message contains the lower-cased q; search("") returns every record; a q
\* whose lower-cased form is a substring of no lower-cased message returns
\* nothing.
C7_Search ==
    (pc = "query" /\ op = "search") =>
        /\ out = Pick(entries, Matches(entries, arg))
        /\ (arg = <<>> => out = entries)
        /\ (Matches(entries, arg) = {} => out = <<>>)
        /\ entries = prev

C7_Witness ==
    /\ pc = "query" /\ op = "search"
    /\ arg = <<"F", "A", "I", "L">>
    /\ Len(entries) = 3
    /\ entries[1].message = <<"s", "t", "a", "r", "t", "e", "d">>
    /\ entries[3].message = <<"F", "A", "I", "L">>
    /\ Len(out) = 2
    /\ out = <<entries[2], entries[3]>>

Least(a, b) == IF a <= b THEN a ELSE b

\* C8: get_recent(n) returns the last min(n, count_total()) records in order:
\* nothing for n = 0, the whole store for n >= count_total().
C8_Recent ==
    (pc = "query" /\ op = "get_recent") =>
        /\ Len(out) = Least(arg, count_total(entries))
        /\ \A j \in 1..Len(out) : out[j] = entries[Len(entries) - Len(out) + j]
        /\ (arg = 0 => out = <<>>)
        /\ (arg >= count_total(entries) => out = entries)
        /\ entries = prev

\* the store after add("INFO", "started"), add("ERROR", "failed to connect"),
\* add("INFO", "retrying"), and recent(2)
C8_Witness ==
    /\ pc = "query" /\ op = "get_recent"
    /\ arg = 2
    /\ Len(entries) = 3
    /\ entries[1].message = <<"s", "t", "a", "r", "t", "e", "d">>
    /\ entries[2].message =
          <<"f", "a", "i", "l", "e", "d", " ", "t", "o", " ", "c", "o", "n", "n", "e", "c", "t">>
    /\ entries[3].message = <<"r", "e", "t", "r", "y", "i", "n", "g">>
    /\ out = <<entries[2], entries[3]>>

RECURSIVE SumOf(_, _)
SumOf(f, S) ==
    IF S = {} THEN 0
    ELSE LET x == CHOOSE y \in S : TRUE IN f[x] + SumOf(f, S \ {x})

\* C9: after any loads, adds and clears, get_statistics() has exactly the
\* levels present in the store as keys, maps each to the number of records
\* with exactly that level, has no zero count, and sums to count_total().
C9_Statistics ==
    pc = "api" =>
        LET stats == get_statistics(entries)
        IN  /\ DOMAIN stats = {entries[i].level : i \in 1..Len(entries)}
            /\ \A l \in DOMAIN stats :
                  /\ stats[l] = Cardinality({i \in 1..Len(entries) : entries[i].level = l})
                  /\ stats[l] > 0
            /\ SumOf(stats, DOMAIN stats) = count_total(entries)

C9_Witness ==
    /\ pc = "api" /\ op = "load_from_file"
    /\ Len(prev) = 2 /\ Len(entries) = 3
    /\ DOMAIN get_statistics(entries) = {<<"I", "N", "F", "O">>, <<"i", "n", "f", "o">>}
    /\ get_statistics(entries)[<<"I", "N", "F", "O">>] = 2
    /\ get_statistics(entries)[<<"i", "n", "f", "o">>] = 1

\* the line read at the menu in this step, when one was read
Selected == IF pc = "menu" /\ arg' # <<>> THEN <<arg'[1]>> ELSE <<>>

\* C10: save is called only when "8" is selected, then exactly once, and the
\* loop is left whatever save returned, after which nothing happens; a
\* selection that is none of "1".."8" changes neither the store nor the file
\* and the menu is shown again.
C10_SaveOnExit ==
    [][/\ (saveCalls' # saveCalls =>
              /\ Selected = << <<"8">> >>
              /\ saveCalls = 0 /\ saveCalls' = 1)
       /\ (Selected = << <<"8">> >> =>
              /\ saveCalls' = saveCalls + 1
              /\ pc' = "done")
       /\ ((Selected # <<>> /\ Selected[1] \notin Recognized) =>
              /\ entries' = entries /\ file' = file
              /\ pc' = "menu")
       /\ (pc = "done" => UNCHANGED vars)]_vars

C10_Witness ==
    /\ pc = "done"
    /\ saveCalls = 1
    /\ res = "Err"
    /\ file.exists /\ file.content = <<>>
    /\ Len(entries) = 2

====
